---------------------------- MODULE Spec2Model ----------------------------
(***************************************************************************)
(* The MSSQL lowering registry of ibis (ibis/backends/mssql/registry.py):  *)
(* the construction of operation_registry and the per-operation lowering   *)
(* functions, together with the T-SQL meaning of the functions they emit.  *)
(*                                                                         *)
(* Operation nodes and Python values are records tagged by "kind" / "py";  *)
(* emitted SQLAlchemy expressions are tuples whose first element names the *)
(* construct; a raised exception is the tuple <<"raise", name>>.           *)
(***************************************************************************)
EXTENDS Integers, Sequences, FiniteSets, TLC

VARIABLES
    pc,                                    \* position in the module-level registry construction;
                                           \* "built" once done, "lowered" after a lowering call
    sqlalchemy_operation_registry,         \* the default lowering table (imported)
    sqlalchemy_window_functions_registry,  \* the window-function table (imported)
    overrides,                             \* the dict literal handed to update()
    operation_registry,                    \* the registry under construction / built
    within_where,                          \* t.within_where of the translator
    op,                                    \* the operation node being lowered
    out                                    \* what the lowering returned or raised

vars == <<pc, sqlalchemy_operation_registry, sqlalchemy_window_functions_registry,
          overrides, operation_registry, within_where, op, out>>

tables == <<sqlalchemy_operation_registry, sqlalchemy_window_functions_registry,
            overrides, operation_registry>>

(***************************************************************************)
(* Bounds of the model.                                                    *)
(***************************************************************************)
MaxStrLen == 3        \* longest string argument
MaxSubLen == 2        \* longest search substring
MaxWidth == 2         \* largest bucket width
MaxTzHour == 10       \* largest whole-hour part of a UTC offset
MaxTableKeys == 2     \* most keys of a drawn default / override table

(***************************************************************************)
(* Python values.                                                          *)
(***************************************************************************)
PyNone == [py |-> "None"]
PyInt(n) == [py |-> "int", v |-> n]
PyStr(s) == [py |-> "str", v |-> s]
PyBool(b) == [py |-> "bool", v |-> b]
IsNone(x) == x.py = "None"

Raise(e) == <<"raise", e>>
IsRaise(x) == x[1] = "raise"

\* str(n) of a non-negative int: its decimal digits
Digits == <<"0", "1", "2", "3", "4", "5", "6", "7", "8", "9">>
RECURSIVE str(_)
str(n) == IF n < 10 THEN Digits[n + 1] ELSE str(n \div 10) \o Digits[(n % 10) + 1]

(***************************************************************************)
(* Registry construction.                                                  *)
(***************************************************************************)
_invalid_operations ==
    {"RPad", "LPad", "BitAnd", "BitOr", "BitXor", "GroupConcat", "NthValue"}

\* The dict literal of operation_registry.update({...}): kind -> lowering rule
UnaryKinds ==
    {"Capitalize", "LStrip", "Lowercase", "RStrip", "Reverse", "Strip", "Uppercase",
     "Abs", "Acos", "Asin", "Atan", "Ceil", "Cos", "Floor", "Sign", "Sin", "Sqrt",
     "Tan", "Hash"}

FixedArityKinds ==
    {"Repeat", "StringReplace", "Atan2", "FloorDivide", "Power", "RandomScalar",
     "Ln", "Log", "Log2", "Log10", "TimestampNow", "DayOfWeekIndex",
     "ExtractEpochSeconds", "DateFromYMD", "TimestampFromYMDHMS", "TimeFromHMS",
     "ExtractMicrosecond"}

ExtractKinds ==
    {"ExtractYear", "ExtractMonth", "ExtractDay", "ExtractDayOfYear", "ExtractHour",
     "ExtractMinute", "ExtractSecond", "ExtractMillisecond", "ExtractWeekOfYear"}

MssqlOverrides ==
    [k \in {"Not", "Count", "Max", "Min", "Sum", "Mean", "IfElse",
            "StringFind", "StringLength", "Round", "StandardDev", "Variance",
            "TimestampFromUNIX", "TimestampTruncate", "DateTruncate",
            "TimestampBucket", "HashBytes", "HexDigest", "TimeDelta", "DateDelta",
            "TimestampDelta", "Literal"}
           \cup UnaryKinds \cup FixedArityKinds \cup ExtractKinds |->
        CASE k = "Not" -> "_not"
          [] k \in {"Count", "Max", "Min", "Sum", "Mean"} -> "_reduction"
          [] k = "IfElse" -> "fixed_arity_iif"
          [] k = "StringFind" -> "_string_find"
          [] k = "StringLength" -> "unary_len"
          [] k = "Round" -> "_round"
          [] k \in {"StandardDev", "Variance"} -> "variance_reduction"
          [] k = "TimestampFromUNIX" -> "_timestamp_from_unix"
          [] k \in {"TimestampTruncate", "DateTruncate"} -> "_timestamp_truncate"
          [] k = "TimestampBucket" -> "_timestamp_bucket"
          [] k = "HashBytes" -> "_hashbytes"
          [] k = "HexDigest" -> "_hexdigest"
          [] k \in {"TimeDelta", "DateDelta", "TimestampDelta"} -> "_temporal_delta"
          [] k = "Literal" -> "_literal"
          [] k \in UnaryKinds -> "unary"
          [] k \in FixedArityKinds -> "fixed_arity"
          [] k \in ExtractKinds -> "_extract"]

\* dict.copy()
DictCopy(d) == [k \in DOMAIN d |-> d[k]]

\* d.update(u): u's entries replace or extend d's
DictUpdate(d, u) ==
    [k \in DOMAIN d \cup DOMAIN u |-> IF k \in DOMAIN u THEN u[k] ELSE d[k]]

\* a bug: the filter runs over the default table's kinds only
DropInvalidOfDefaultsOnly(d) ==
    [k \in DOMAIN d \ (_invalid_operations \cap DOMAIN sqlalchemy_operation_registry) |-> d[k]]

\* {k: v for k, v in d.items() if k not in _invalid_operations}
DropInvalid(d) == [k \in DOMAIN d \ _invalid_operations |-> d[k]]

\* registry lookup by operation kind: the lowering function, or a failure
Resolve(registry, kind) ==
    IF kind \in DOMAIN registry THEN registry[kind] ELSE "OperationNotDefinedError"

CopyRegistry ==
    /\ pc = "copy"
    /\ operation_registry' = DictCopy(sqlalchemy_operation_registry)
    /\ pc' = "update_window"
    /\ UNCHANGED <<sqlalchemy_operation_registry, sqlalchemy_window_functions_registry,
                   overrides, within_where, op, out>>

UpdateWindowFunctions ==
    /\ pc = "update_window"
    /\ operation_registry' =
           DictUpdate(operation_registry, sqlalchemy_window_functions_registry)
    /\ pc' = "update_overrides"
    /\ UNCHANGED <<sqlalchemy_operation_registry, sqlalchemy_window_functions_registry,
                   overrides, within_where, op, out>>

UpdateOverrides ==
    /\ pc = "update_overrides"
    /\ operation_registry' = DictUpdate(operation_registry, overrides)
    /\ pc' = "filter"
    /\ UNCHANGED <<sqlalchemy_operation_registry, sqlalchemy_window_functions_registry,
                   overrides, within_where, op, out>>

RemoveInvalidOperations ==
    /\ pc = "filter"
    /\ operation_registry' = DropInvalid(operation_registry)
    /\ pc' = "built"
    /\ UNCHANGED <<sqlalchemy_operation_registry, sqlalchemy_window_functions_registry,
                   overrides, within_where, op, out>>

\* Kinds the drawn tables range over: the denylist and some kinds outside it
RegistryKinds == _invalid_operations \cup {"Not", "TimestampBucket", "RowNumber"}
WindowKinds == {"NthValue", "RowNumber"}

SmallTables(kinds, tag) ==
    {[k \in S |-> tag] : S \in {X \in SUBSET kinds : Cardinality(X) <= MaxTableKeys}}

NoNode == [kind |-> "None"]

InitRegistry ==
    /\ pc = "copy"
    /\ sqlalchemy_operation_registry \in SmallTables(RegistryKinds, "sqlalchemy")
    /\ sqlalchemy_window_functions_registry \in
           {[k \in S |-> "window"] : S \in SUBSET WindowKinds}
    /\ overrides \in SmallTables(RegistryKinds, "mssql")
    /\ operation_registry = <<>>
    /\ within_where = FALSE
    /\ op = NoNode
    /\ out = <<"none">>

NextRegistry ==
    \/ CopyRegistry
    \/ UpdateWindowFunctions
    \/ UpdateOverrides
    \/ RemoveInvalidOperations

SpecRegistry == InitRegistry /\ [][NextRegistry]_vars


(***************************************************************************)
(* Operation nodes.                                                        *)
(***************************************************************************)
Dt(name, nullable) == [name |-> name, nullable |-> nullable]
DtInterval(unit) == [name |-> "interval", nullable |-> TRUE, unit |-> unit]
DtTimestamp(timezone) == [name |-> "timestamp", nullable |-> TRUE, timezone |-> timezone]

TableColumn(name, dtype) == [kind |-> "TableColumn", name |-> name, dtype |-> dtype]
Literal(value, dtype) == [kind |-> "Literal", value |-> value, dtype |-> dtype]
Cast(arg, to) == [kind |-> "Cast", arg |-> arg, to |-> to, dtype |-> to]
\* ops.IfElse(c, a, b): Python scalars handed to it become Literal nodes
IfElse(bool_expr, true_expr, false_null_expr) ==
    [kind |-> "IfElse", bool_expr |-> bool_expr, true_expr |-> true_expr,
     false_null_expr |-> false_null_expr, dtype |-> true_expr.dtype]
Not(arg) == [kind |-> "Not", arg |-> arg, dtype |-> Dt("boolean", arg.dtype.nullable)]
IntLiteral(n) == Literal(PyInt(n), Dt("int8", FALSE))
NullLiteral == Literal(PyNone, Dt("null", TRUE))

(***************************************************************************)
(* Lowering functions.  translate(ww, node) is t.translate(node) of a      *)
(* translator t with t.within_where = ww.                                  *)
(***************************************************************************)
RECURSIVE translate(_, _)

\* The shared rules this model needs from the default table
sqlalchemy_default(ww, node) ==
    CASE node.kind = "TableColumn" -> <<"column", node.name>>
      [] node.kind = "Cast" ->
            LET arg == translate(ww, node.arg) IN
            IF IsRaise(arg) THEN arg ELSE <<"cast", arg, node.to>>
      [] OTHER -> Raise("OperationNotDefinedError")

\* fixed_arity(sa.func.iif, 3)
fixed_arity_iif(ww, node) ==
    LET a == translate(ww, node.bool_expr)
        b == translate(ww, node.true_expr)
        c == translate(ww, node.false_null_expr)
    IN  IF IsRaise(a) THEN a
        ELSE IF IsRaise(b) THEN b
        ELSE IF IsRaise(c) THEN c
        ELSE <<"iif", a, b, c>>

\* ---- reductions ----
Reductions == {"Count", "Max", "Min", "Sum", "Mean"}

\* the func argument of each _reduction(...) entry of the override table
ReductionFunc(kind) ==
    CASE kind = "Count" -> "count"
      [] kind = "Max" -> "max"
      [] kind = "Min" -> "min"
      [] kind = "Sum" -> "sum"
      [] kind = "Mean" -> "avg"

\* the cast_type argument of each _reduction(...) entry (default "int32")
ReductionCastType(kind) == IF kind = "Mean" THEN "float64" ELSE "int32"

\* a bug: the filter mask is applied before the boolean coercion
ReductionMaskFirst(func, cast_type, ww, node) ==
    LET masked == IF node.where.kind # "None"
                  THEN IfElse(node.where, node.arg, NullLiteral)
                  ELSE node.arg
        arg2 == IF masked.dtype.name = "boolean"
                THEN IF masked.kind = "TableColumn"
                     THEN Cast(masked, Dt(cast_type, masked.dtype.nullable))
                     ELSE IfElse(masked, IntLiteral(1), IntLiteral(0))
                ELSE masked
        sa_arg == translate(ww, arg2)
    IN  IF IsRaise(sa_arg) THEN sa_arg ELSE <<func, sa_arg>>

_reduction(func, cast_type, ww, node) ==
    LET arg1 == IF node.arg.dtype.name = "boolean"
                THEN IF node.arg.kind = "TableColumn"
                     THEN Cast(node.arg, Dt(cast_type, node.arg.dtype.nullable))
                     ELSE IfElse(node.arg, IntLiteral(1), IntLiteral(0))
                ELSE node.arg
        arg2 == IF node.where.kind # "None"
                THEN IfElse(node.where, arg1, NullLiteral)
                ELSE arg1
        sa_arg == translate(ww, arg2)
    IN  IF IsRaise(sa_arg) THEN sa_arg ELSE <<func, sa_arg>>

\* ---- strings ----
_string_find(ww, node) ==
    LET sa_arg == translate(ww, node.arg)
        sa_substr == translate(ww, node.substr)
    IN  IF IsRaise(sa_arg) THEN sa_arg
        ELSE IF IsRaise(sa_substr) THEN sa_substr
        ELSE IF node.start.kind # "None"
             THEN LET sa_start == translate(ww, node.start) IN
                  IF IsRaise(sa_start) THEN sa_start
                  ELSE <<"sub", <<"charindex", sa_substr, sa_arg, sa_start>>,
                         <<"literal", PyInt(1)>>>>
             ELSE <<"sub", <<"charindex", sa_substr, sa_arg>>, <<"literal", PyInt(1)>>>>

\* a bug: only the leading pad character is added
LenLeadingPadOnly(x) ==
    <<"sub", <<"len", <<"concat", <<"literal", PyStr(<<"A">>)>>, x>>>>,
      <<"literal", PyInt(1)>>>>

_len(x) ==
    <<"sub",
      <<"len", <<"concat", <<"concat", <<"literal", PyStr(<<"A">>)>>, x>>,
                           <<"literal", PyStr(<<"Z">>)>>>>>>,
      <<"literal", PyInt(2)>>>>

\* unary(_len)
unary_len(ww, node) ==
    LET arg == translate(ww, node.arg) IN
    IF IsRaise(arg) THEN arg ELSE _len(arg)

\* ---- temporal ----
\* every short name of the interval-unit enumeration
IntervalUnitShorts == {"Y", "Q", "M", "W", "D", "h", "m", "s", "ms", "us", "ns"}

_interval_units ==
    [u \in {"us", "ms", "s", "m", "h", "D", "W", "M", "Q", "Y"} |->
        CASE u = "us" -> "microsecond"
          [] u = "ms" -> "millisecond"
          [] u = "s" -> "second"
          [] u = "m" -> "minute"
          [] u = "h" -> "hour"
          [] u = "D" -> "day"
          [] u = "W" -> "week"
          [] u = "M" -> "month"
          [] u = "Q" -> "quarter"
          [] u = "Y" -> "year"]

_timestamp_truncate(ww, node) ==
    LET arg == translate(ww, node.arg)
        unit == node.unit
    IN  IF IsRaise(arg) THEN arg
        ELSE IF unit \notin DOMAIN _interval_units
             THEN Raise("UnsupportedOperationError")
             ELSE <<"datetrunc", <<"text", _interval_units[unit]>>, arg>>

\* a bug: the check for an offset argument is missing
TimestampBucketIgnoresOffset(ww, node) ==
    LET unit == node.interval.dtype.unit IN
    IF node.interval.kind # "Literal" THEN Raise("UnsupportedOperationError")
    ELSE IF unit = "us" \/ unit \notin DOMAIN _interval_units
         THEN Raise("UnsupportedOperationError")
    ELSE LET part == <<"literal_column", _interval_units[unit]>>
             value == <<"literal_column", str(node.interval.value.v)>>
             arg == translate(ww, node.arg)
             origin == <<"literal_column", "CAST('1970-01-01' AS DATETIME2)">>
         IN  IF IsRaise(arg) THEN arg ELSE <<"DATE_BUCKET", part, value, arg, origin>>

_timestamp_bucket(ww, node) ==
    LET unit == node.interval.dtype.unit IN
    IF node.interval.kind # "Literal" THEN Raise("UnsupportedOperationError")
    ELSE IF unit = "us" \/ unit \notin DOMAIN _interval_units
         THEN Raise("UnsupportedOperationError")
    ELSE IF node.offset.kind # "None" THEN Raise("UnsupportedOperationError")
    ELSE LET part == <<"literal_column", _interval_units[unit]>>
             value == <<"literal_column", str(node.interval.value.v)>>
             arg == translate(ww, node.arg)
             origin == <<"literal_column", "CAST('1970-01-01' AS DATETIME2)">>
         IN  IF IsRaise(arg) THEN arg ELSE <<"DATE_BUCKET", part, value, arg, origin>>

\* ---- boolean negation ----
\* a bug: the operand is translated as if in the other context
NotFlipsContext(ww, node) ==
    LET arg == translate(~ww, node.arg) IN
    IF IsRaise(arg) THEN arg
    ELSE IF ww THEN <<"not", arg>>
    ELSE <<"case", <<"eq", arg, <<"literal", PyInt(0)>>>>,
           <<"literal", PyBool(TRUE)>>, <<"literal", PyBool(FALSE)>>>>

_not(ww, node) ==
    LET arg == translate(ww, node.arg) IN
    IF IsRaise(arg) THEN arg
    ELSE IF ww THEN <<"not", arg>>
    ELSE <<"case", <<"eq", arg, <<"literal", PyInt(0)>>>>,
           <<"literal", PyBool(TRUE)>>, <<"literal", PyBool(FALSE)>>>>

\* ---- literals ----
TwoDigits(n) == <<Digits[(n \div 10) + 1], Digits[(n % 10) + 1]>>

\* value.strftime("%z"): "" without a UTC offset, else sign, HH, MM as characters
strftime_z(value) ==
    IF IsNone(value.tzinfo) THEN <<>>
    ELSE LET off == value.tzinfo.utcoffset
             mag == IF off < 0 THEN -off ELSE off
         IN  <<IF off < 0 THEN "-" ELSE "+">> \o TwoDigits(mag \div 60) \o TwoDigits(mag % 60)

DigitValue(c) == CHOOSE d \in 0..9 : Digits[d + 1] = c

RECURSIVE ParseDigits(_)
ParseDigits(cs) ==
    IF Len(cs) = 1 THEN DigitValue(cs[1])
    ELSE 10 * ParseDigits(SubSeq(cs, 1, Len(cs) - 1)) + DigitValue(cs[Len(cs)])

\* int(text) of an optionally signed run of decimal digits; anything else raises
IsIntText(cs) ==
    LET body == IF cs # <<>> /\ cs[1] \in {"+", "-"} THEN Tail(cs) ELSE cs IN
    /\ body # <<>>
    /\ \A i \in 1..Len(body) : \E d \in 1..10 : Digits[d] = body[i]

int(cs) ==
    IF cs[1] = "-" THEN -ParseDigits(Tail(cs))
    ELSE IF cs[1] = "+" THEN ParseDigits(Tail(cs))
    ELSE ParseDigits(cs)

\* text[:3] and text[-2:]
FirstThree(cs) == SubSeq(cs, 1, IF Len(cs) < 3 THEN Len(cs) ELSE 3)
LastTwo(cs) == SubSeq(cs, IF Len(cs) < 2 THEN 1 ELSE Len(cs) - 1, Len(cs))

\* Literal values of array, decimal, uuid and binary type are not drawn here
_literal(ww, node) ==
    LET dtype == node.dtype
        value == node.value
    IN  IF IsNone(value) THEN <<"null">>
        ELSE IF dtype.name = "date"
             THEN <<"datefromparts", <<value.year, value.month, value.day>>>>
        ELSE IF dtype.name = "timestamp"
             THEN LET args == <<value.year, value.month, value.day, value.hour,
                                value.minute, value.second, value.microsecond>>
                  IN  IF ~IsNone(dtype.timezone)
                      THEN IF IsNone(value.tzinfo) THEN Raise("AssertionError")
                           ELSE LET offset == strftime_z(value) IN
                                IF ~IsIntText(FirstThree(offset)) \/ ~IsIntText(LastTwo(offset))
                                THEN Raise("ValueError")
                                ELSE <<"datetimeoffsetfromparts",
                                       args \o <<int(FirstThree(offset)),
                                                 int(LastTwo(offset)), 6>>>>
                      ELSE <<"datetime2fromparts", args \o <<6>>>>
        ELSE IF dtype.name = "time"
             THEN <<"timefromparts",
                    <<value.hour, value.minute, value.second, value.microsecond>>,
                    <<"literal_column", "0">>>>
        ELSE <<"literal", value>>

\* ---- hashing ----
_hashbytes(ww, node) ==
    LET how == node.how
        arg_formatted == translate(ww, node.arg)
    IN  IF IsRaise(arg_formatted) THEN arg_formatted
        ELSE IF how \in {"md5", "sha1"} THEN <<"hashbytes", how, arg_formatted>>
        ELSE IF how = "sha256" THEN <<"hashbytes", "sha2_256", arg_formatted>>
        ELSE IF how = "sha512" THEN <<"hashbytes", "sha2_512", arg_formatted>>
        ELSE Raise("NotImplementedError")

HexConvert(hashbinary) ==
    <<"lower", <<"convert", <<"literal_column", "VARCHAR(MAX)">>, hashbinary,
                 <<"literal", PyInt(2)>>>>>>

\* a bug: sha256 / sha512 keep their abstract names
HexDigestKeepsNames(ww, node) ==
    LET how == node.how
        arg_formatted == translate(ww, node.arg)
    IN  IF IsRaise(arg_formatted) THEN arg_formatted
        ELSE IF how \in {"md5", "sha1", "sha256", "sha512"}
             THEN HexConvert(<<"hashbytes", how, arg_formatted>>)
        ELSE Raise("NotImplementedError")

_hexdigest(ww, node) ==
    LET how == node.how
        arg_formatted == translate(ww, node.arg)
    IN  IF IsRaise(arg_formatted) THEN arg_formatted
        ELSE IF how \in {"md5", "sha1"}
             THEN HexConvert(<<"hashbytes", how, arg_formatted>>)
        ELSE IF how = "sha256"
             THEN HexConvert(<<"hashbytes", "sha2_256", arg_formatted>>)
        ELSE IF how = "sha512"
             THEN HexConvert(<<"hashbytes", "sha2_512", arg_formatted>>)
        ELSE Raise("NotImplementedError")

\* ---- dispatch ----
\* t.translate(node): look the node's kind up in the registry and call the rule
\* (the rules for kinds that no operation drawn here has are not spelled out)
translate(ww, node) ==
    LET rule == Resolve(operation_registry, node.kind) IN
    CASE rule = "_not" -> _not(ww, node)
      [] rule = "_reduction" ->
            _reduction(ReductionFunc(node.kind), ReductionCastType(node.kind), ww, node)
      [] rule = "fixed_arity_iif" -> fixed_arity_iif(ww, node)
      [] rule = "_string_find" -> _string_find(ww, node)
      [] rule = "unary_len" -> unary_len(ww, node)
      [] rule = "_timestamp_truncate" -> _timestamp_truncate(ww, node)
      [] rule = "_timestamp_bucket" -> _timestamp_bucket(ww, node)
      [] rule = "_hashbytes" -> _hashbytes(ww, node)
      [] rule = "_hexdigest" -> _hexdigest(ww, node)
      [] rule = "_literal" -> _literal(ww, node)
      [] rule = "sqlalchemy" -> sqlalchemy_default(ww, node)
      [] OTHER -> Raise("OperationNotDefinedError")

(***************************************************************************)
(* What the emitted T-SQL computes.                                        *)
(***************************************************************************)
\* LEN: the number of characters, trailing spaces excluded
RECURSIVE NativeLen(_)
NativeLen(s) ==
    IF s = <<>> THEN 0
    ELSE IF s[Len(s)] = " " THEN NativeLen(SubSeq(s, 1, Len(s) - 1))
    ELSE Len(s)

\* positions (1-based) where sub occurs in s
MatchesAt(sub, s, p) ==
    /\ p >= 1
    /\ p + Len(sub) - 1 <= Len(s)
    /\ SubSeq(s, p, p + Len(sub) - 1) = sub

\* CHARINDEX(sub, s, start): the 1-based position of the first match at or after
\* the 1-based start (a start below 1 searches from the beginning), 0 without one
CharIndex(sub, s, start) ==
    LET from == IF start < 1 THEN 1 ELSE start
        hits == {p \in from..Len(s) : MatchesAt(sub, s, p)}
    IN  IF hits = {} THEN 0 ELSE CHOOSE p \in hits : \A q \in hits : p <= q

RECURSIVE EvalStr(_)
EvalStr(e) ==
    CASE e[1] = "literal" -> e[2].v
      [] e[1] = "concat" -> EvalStr(e[2]) \o EvalStr(e[3])

RECURSIVE EvalInt(_)
EvalInt(e) ==
    CASE e[1] = "literal" -> e[2].v
      [] e[1] = "sub" -> EvalInt(e[2]) - EvalInt(e[3])
      [] e[1] = "len" -> NativeLen(EvalStr(e[2]))
      [] e[1] = "charindex" ->
            CharIndex(EvalStr(e[2]), EvalStr(e[3]),
                      IF Len(e) = 4 THEN EvalInt(e[4]) ELSE 1)

\* Three-valued booleans in their 0/1 encoding
BitValues == {"0", "1", "NULL"}
Not3(v) == CASE v = "0" -> "1" [] v = "1" -> "0" [] v = "NULL" -> "NULL"
Eq3(a, b) == IF a = "NULL" \/ b = "NULL" THEN "NULL" ELSE IF a = b THEN "1" ELSE "0"

\* the value of a boolean expression over one column whose value in the row is v
RECURSIVE EvalBit(_, _)
EvalBit(e, v) ==
    CASE e[1] = "column" -> v
      [] e[1] = "literal" ->
            IF e[2].py = "bool" THEN (IF e[2].v THEN "1" ELSE "0")
            ELSE IF e[2].v = 0 THEN "0" ELSE "1"
      [] e[1] = "not" -> Not3(EvalBit(e[2], v))
      [] e[1] = "eq" -> Eq3(EvalBit(e[2], v), EvalBit(e[3], v))
      [] e[1] = "case" ->
            IF EvalBit(e[2], v) = "1" THEN EvalBit(e[3], v) ELSE EvalBit(e[4], v)

\* whether a construct named head occurs anywhere in a boolean expression
RECURSIVE Mentions(_, _)
Mentions(e, head) ==
    \/ e[1] = head
    \/ /\ e[1] \in {"not", "eq", "case"}
       /\ \E i \in 2..Len(e) : Mentions(e[i], head)

(***************************************************************************)
(* Lowering one operation node.                                            *)
(***************************************************************************)
Chars == {"a", " "}
Strings(n) == UNION {[1..k -> Chars] : k \in 0..n}

BoolCol(nullable) == TableColumn("b", Dt("boolean", nullable))
PredCol == TableColumn("p", Dt("boolean", TRUE))
IntCol == TableColumn("x", Dt("int64", TRUE))
StrCol == TableColumn("s", Dt("string", TRUE))
TsCol == TableColumn("ts", DtTimestamp(PyNone))
StrLiteral(s) == Literal(PyStr(s), Dt("string", FALSE))

LowerNot ==
    \E ww \in BOOLEAN, n \in BOOLEAN :
        \E a \in {BoolCol(n), Not(BoolCol(n)), Not(Not(BoolCol(n)))} :
            LET node == Not(a) IN
            /\ pc = "built"
            /\ within_where' = ww
            /\ op' = node
            /\ out' = translate(ww, node)
            /\ pc' = "lowered"
            /\ UNCHANGED tables

LowerReduction ==
    \E ww \in BOOLEAN, kind \in Reductions :
        \E arg \in {BoolCol(TRUE), BoolCol(FALSE), Not(BoolCol(TRUE)), IntCol},
           where \in {NoNode, PredCol, Not(PredCol)} :
            LET node == [kind |-> kind, arg |-> arg, where |-> where,
                       dtype |-> Dt("int64", TRUE)] IN
            /\ pc = "built"
            /\ within_where' = ww
            /\ op' = node
            /\ out' = translate(ww, node)
            /\ pc' = "lowered"
            /\ UNCHANGED tables

LowerStringFind ==
    \E ww \in BOOLEAN, s \in Strings(MaxStrLen), sub \in Strings(MaxSubLen) \ {<<>>} :
        \E start \in {NoNode} \cup {IntLiteral(k) : k \in 0..MaxStrLen} :
            LET node == [kind |-> "StringFind", arg |-> StrLiteral(s),
                       substr |-> StrLiteral(sub), start |-> start, end |-> NoNode,
                       dtype |-> Dt("int64", TRUE)] IN
            /\ pc = "built"
            /\ within_where' = ww
            /\ op' = node
            /\ out' = translate(ww, node)
            /\ pc' = "lowered"
            /\ UNCHANGED tables

LowerStringLength ==
    \E ww \in BOOLEAN :
        \E arg \in {StrCol} \cup {StrLiteral(s) : s \in Strings(MaxStrLen)} :
            LET node == [kind |-> "StringLength", arg |-> arg, dtype |-> Dt("int32", TRUE)] IN
            /\ pc = "built"
            /\ within_where' = ww
            /\ op' = node
            /\ out' = translate(ww, node)
            /\ pc' = "lowered"
            /\ UNCHANGED tables

LowerTruncate ==
    \E ww \in BOOLEAN, kind \in {"TimestampTruncate", "DateTruncate"},
       unit \in IntervalUnitShorts :
        LET node == [kind |-> kind, arg |-> TsCol, unit |-> unit,
                   dtype |-> DtTimestamp(PyNone)] IN
        /\ pc = "built"
        /\ within_where' = ww
        /\ op' = node
        /\ out' = translate(ww, node)
        /\ pc' = "lowered"
        /\ UNCHANGED tables

LowerBucket ==
    \E ww \in BOOLEAN, unit \in IntervalUnitShorts, width \in 1..MaxWidth, lit \in BOOLEAN :
        \E offset \in {NoNode, Literal(PyInt(1), DtInterval("m"))} :
            LET node == [kind |-> "TimestampBucket", arg |-> TsCol,
                       interval |-> IF lit THEN Literal(PyInt(width), DtInterval(unit))
                                    ELSE TableColumn("i", DtInterval(unit)),
                       offset |-> offset, dtype |-> DtTimestamp(PyNone)] IN
            /\ pc = "built"
            /\ within_where' = ww
            /\ op' = node
            /\ out' = translate(ww, node)
            /\ pc' = "lowered"
            /\ UNCHANGED tables

HashAlgorithms == {"md5", "sha1", "sha256", "sha512", "sha384", "crc32"}

LowerHashBytes ==
    \E ww \in BOOLEAN, how \in HashAlgorithms :
        \E arg \in {StrCol} \cup {StrLiteral(s) : s \in Strings(1)} :
            LET node == [kind |-> "HashBytes", arg |-> arg, how |-> how,
                       dtype |-> Dt("binary", TRUE)] IN
            /\ pc = "built"
            /\ within_where' = ww
            /\ op' = node
            /\ out' = translate(ww, node)
            /\ pc' = "lowered"
            /\ UNCHANGED tables

LowerHexDigest ==
    \E ww \in BOOLEAN, how \in HashAlgorithms :
        \E arg \in {StrCol} \cup {StrLiteral(s) : s \in Strings(1)} :
            LET node == [kind |-> "HexDigest", arg |-> arg, how |-> how,
                       dtype |-> Dt("string", TRUE)] IN
            /\ pc = "built"
            /\ within_where' = ww
            /\ op' = node
            /\ out' = translate(ww, node)
            /\ pc' = "lowered"
            /\ UNCHANGED tables

\* UTC offsets in minutes: whole hours up to MaxTzHour plus 0, 30 or 45 minutes
UtcOffsets ==
    {sign * (60 * h + m) : sign \in {-1, 1}, h \in 0..MaxTzHour, m \in {0, 30, 45}}

DateTime(tzinfo) ==
    [py |-> "datetime", year |-> 2024, month |-> 3, day |-> 5, hour |-> 13,
     minute |-> 7, second |-> 9, microsecond |-> 250, tzinfo |-> tzinfo]

TimeZone(off) == [py |-> "timezone", utcoffset |-> off]

LowerLiteral ==
    \E ww \in BOOLEAN :
        \E lit \in
              {Literal(DateTime(tz), DtTimestamp(zone)) :
                   tz \in {PyNone} \cup {TimeZone(off) : off \in UtcOffsets},
                   zone \in {PyNone, PyStr("UTC")}}
              \cup {Literal(DateTime(PyNone), Dt("date", TRUE)),
                    Literal(DateTime(PyNone), Dt("time", TRUE)),
                    Literal(PyNone, DtTimestamp(PyStr("UTC"))),
                    IntLiteral(1), NullLiteral, StrLiteral(<<"a">>)} :
            /\ pc = "built"
            /\ within_where' = ww
            /\ op' = lit
            /\ out' = translate(ww, lit)
            /\ pc' = "lowered"
            /\ UNCHANGED tables

\* an operation the backend does not support
LowerUnsupported ==
    \E ww \in BOOLEAN, kind \in _invalid_operations :
        LET node == [kind |-> kind, arg |-> StrCol, dtype |-> Dt("string", TRUE)] IN
        /\ pc = "built"
        /\ within_where' = ww
        /\ op' = node
        /\ out' = translate(ww, node)
        /\ pc' = "lowered"
        /\ UNCHANGED tables

\* kinds of the default table in this specification: the overridden kinds, the
\* shared rules used here and the non-window kinds of the denylist
DefaultKinds ==
    DOMAIN MssqlOverrides \cup {"TableColumn", "Cast"}
        \cup (_invalid_operations \ WindowKinds)

Init ==
    /\ pc = "built"
    /\ sqlalchemy_operation_registry = [k \in DefaultKinds |-> "sqlalchemy"]
    /\ sqlalchemy_window_functions_registry = [k \in WindowKinds |-> "window"]
    /\ overrides = MssqlOverrides
    /\ operation_registry =
           DropInvalid(DictUpdate(DictUpdate(DictCopy(sqlalchemy_operation_registry),
                                             sqlalchemy_window_functions_registry),
                                  overrides))
    /\ within_where = FALSE
    /\ op = NoNode
    /\ out = <<"none">>

Next ==
    \/ LowerNot
    \/ LowerReduction
    \/ LowerStringFind
    \/ LowerStringLength
    \/ LowerTruncate
    \/ LowerBucket
    \/ LowerHashBytes
    \/ LowerHexDigest
    \/ LowerLiteral
    \/ LowerUnsupported

Spec == Init /\ [][Next]_vars

(***************************************************************************)
(* Properties.                                                             *)
(***************************************************************************)
Lowered(kinds) == pc = "lowered" /\ op.kind \in kinds

\* the documented keyword of each unit that truncation and bucketing support
DocumentedKeyword(unit) ==
    CASE unit = "ms" -> "millisecond"
      [] unit = "s" -> "second"
      [] unit = "m" -> "minute"
      [] unit = "h" -> "hour"
      [] unit = "D" -> "day"
      [] unit = "W" -> "week"
      [] unit = "M" -> "month"
      [] unit = "Q" -> "quarter"
      [] unit = "Y" -> "year"

DocumentedUnits == {"ms", "s", "m", "h", "D", "W", "M", "Q", "Y"}

\* C1: truncation to unit "us" always fails with UnsupportedOperation and emits
\* nothing; every unit of {ms, s, m, h, D, W, M, Q, Y} succeeds and emits
\* datetrunc(<its keyword>, arg); a unit absent from the unit map fails.
TruncateRejectsMicrosecond ==
    Lowered({"TimestampTruncate", "DateTruncate"}) =>
        IF op.unit = "us" THEN out = Raise("UnsupportedOperationError")
        ELSE IF op.unit \in DocumentedUnits
             THEN out = <<"datetrunc", <<"text", DocumentedKeyword(op.unit)>>,
                          <<"column", op.arg.name>>>>
        ELSE out = Raise("UnsupportedOperationError")

\* C2: a boolean-typed argument of Count, Sum, Min, Max or Mean reaches the
\* aggregate coerced: a direct column as a cast to int32 (float64 for Mean) with
\* the column's nullability, any other expression as iif(arg, 1, 0); and with a
\* filter the aggregate's operand is iif(predicate, coerced argument, NULL).
ReductionCoercesBoolean ==
    (Lowered(Reductions) /\ op.arg.dtype.name = "boolean" /\ ~IsRaise(out)) =>
        /\ Len(out) = 2
        /\ out[1] = (CASE op.kind = "Count" -> "count" [] op.kind = "Sum" -> "sum"
                       [] op.kind = "Min" -> "min" [] op.kind = "Max" -> "max"
                       [] op.kind = "Mean" -> "avg")
        /\ (op.where.kind # "None" =>
               /\ Len(out[2]) = 4
               /\ out[2][1] = "iif"
               /\ out[2][2] = translate(within_where, op.where)
               /\ out[2][4] = <<"null">>)
        /\ LET coerced == IF op.where.kind # "None" THEN out[2][3] ELSE out[2] IN
           IF op.arg.kind = "TableColumn"
           THEN coerced = <<"cast", <<"column", op.arg.name>>,
                            [name |-> IF op.kind = "Mean" THEN "float64" ELSE "int32",
                             nullable |-> op.arg.dtype.nullable]>>
           ELSE /\ Len(coerced) = 4
                /\ coerced[1] = "iif"
                /\ coerced[2] = translate(within_where, op.arg)
                /\ coerced[3] = <<"literal", PyInt(1)>>
                /\ coerced[4] = <<"literal", PyInt(0)>>

ReductionCoercesBooleanWitness ==
    /\ Lowered({"Mean"})
    /\ op.arg.kind = "TableColumn"
    /\ op.arg.dtype = Dt("boolean", FALSE)
    /\ op.where.kind = "Not"
    /\ out[1] = "avg"

\* the values the column under a boolean node can take in a row
RowValues(node) == IF node.dtype.nullable THEN BitValues ELSE BitValues \ {"NULL"}

\* the value the conditional of the selection context gives for operand value v
CaseNegation(v) == IF v = "0" THEN "1" ELSE "0"

\* C3 as stated: in predicate context Not emits the native negation; in selection
\* context it emits a conditional whose value is the three-valued negation of
\* the operand: 0 gives true, 1 gives false, NULL gives NULL.
NotIsThreeValuedNegation ==
    (Lowered({"Not"}) /\ ~IsRaise(out)) =>
        /\ out[1] = (IF within_where THEN "not" ELSE "case")
        /\ \A v \in RowValues(op) :
               EvalBit(out, v) = Not3(EvalBit(translate(within_where, op.arg), v))

\* C3 amended: in predicate context Not emits the native negation of the operand;
\* in selection context it emits a conditional that gives true for operand 0 and
\* false for every other operand value (1 and NULL alike); the operand is
\* translated with the same context flag, so the two forms never mix.
NotLoweringByContext ==
    (Lowered({"Not"}) /\ ~IsRaise(out)) =>
        /\ out[1] = (IF within_where THEN "not" ELSE "case")
        /\ Mentions(out, "column")
        /\ ~Mentions(out, IF within_where THEN "case" ELSE "not")
        /\ \A v \in RowValues(op) :
               LET operand == EvalBit(translate(within_where, op.arg), v) IN
               EvalBit(out, v) = IF within_where THEN Not3(operand)
                                 ELSE CaseNegation(operand)

NotLoweringByContextWitness ==
    /\ Lowered({"Not"})
    /\ ~within_where
    /\ op.arg.kind = "Not"
    /\ op.dtype.nullable
    /\ out[1] = "case"
    /\ EvalBit(out, "NULL") = "1"

\* C4: bucketing fails when the interval is not a literal, when its unit is "us"
\* or not in the unit map, and when an offset is supplied, in every combination;
\* otherwise it emits DATE_BUCKET(keyword, width, arg, origin) with the
\* 1970-01-01 origin.
BucketFailsOrEmits ==
    Lowered({"TimestampBucket"}) =>
        IF \/ op.interval.kind # "Literal"
           \/ op.interval.dtype.unit \notin DocumentedUnits
           \/ op.offset.kind # "None"
        THEN IsRaise(out)
        ELSE out = <<"DATE_BUCKET",
                     <<"literal_column", DocumentedKeyword(op.interval.dtype.unit)>>,
                     <<"literal_column", Digits[op.interval.value.v + 1]>>,
                     <<"column", op.arg.name>>,
                     <<"literal_column", "CAST('1970-01-01' AS DATETIME2)">>>>

BucketFailsOrEmitsWitness ==
    /\ Lowered({"TimestampBucket"})
    /\ op.interval.kind = "Literal"
    /\ op.interval.dtype.unit = "W"
    /\ op.offset.kind = "None"
    /\ out[1] = "DATE_BUCKET"

\* C5: no denylisted kind is a key of the final registry, whatever the three
\* tables contain; resolving a denylisted kind fails, and every other kind of
\* the default, window or override table still resolves.
DenylistUnresolvable ==
    pc = "built" =>
        /\ \A k \in _invalid_operations :
               /\ k \notin DOMAIN operation_registry
               /\ Resolve(operation_registry, k) = "OperationNotDefinedError"
        /\ \A k \in (DOMAIN sqlalchemy_operation_registry
                        \cup DOMAIN sqlalchemy_window_functions_registry
                        \cup DOMAIN overrides) \ _invalid_operations :
               /\ k \in DOMAIN operation_registry
               /\ Resolve(operation_registry, k) # "OperationNotDefinedError"

DenylistUnresolvableWitness ==
    /\ pc = "built"
    /\ "NthValue" \in DOMAIN sqlalchemy_window_functions_registry
    /\ "RPad" \in DOMAIN overrides
    /\ "Not" \in DOMAIN overrides
    /\ "GroupConcat" \in DOMAIN sqlalchemy_operation_registry
    /\ DOMAIN operation_registry = {"Not"}

\* C6: LEN('A' + s + 'Z') - 2, with LEN ignoring trailing spaces, is the number
\* of characters of s, for the empty string, all-space strings and strings that
\* end in spaces too.
LenCountsEveryCharacter ==
    (Lowered({"StringLength"}) /\ op.arg.kind = "Literal") =>
        /\ ~IsRaise(out)
        /\ EvalInt(out) = Len(op.arg.value.v)

LenCountsEveryCharacterWitness ==
    /\ Lowered({"StringLength"})
    /\ op.arg.kind = "Literal"
    /\ op.arg.value.v = <<"a", " ", " ">>
    /\ EvalInt(out) = Len(op.arg.value.v)
    /\ NativeLen(op.arg.value.v) = 1

\* C7: a timezone-typed timestamp literal with UTC offset +HH:MM or -HH:MM lowers
\* to datetimeoffsetfromparts(7 components, hour_offset, minute_offset, 6) where
\* hour_offset and minute_offset are the signed hour and minute parts of the
\* offset, so hour_offset * 60 + minute_offset is the offset in minutes; a value
\* without offset information fails.
LiteralOffsetParts ==
    (/\ Lowered({"Literal"})
     /\ op.value.py = "datetime"
     /\ op.dtype.name = "timestamp"
     /\ ~IsNone(op.dtype.timezone)) =>
        IF IsNone(op.value.tzinfo) THEN IsRaise(out)
        ELSE /\ ~IsRaise(out)
             /\ out[1] = "datetimeoffsetfromparts"
             /\ Len(out[2]) = 10
             /\ SubSeq(out[2], 1, 7) =
                    <<op.value.year, op.value.month, op.value.day, op.value.hour,
                      op.value.minute, op.value.second, op.value.microsecond>>
             /\ out[2][8] * 60 + out[2][9] = op.value.tzinfo.utcoffset
             /\ out[2][8] * out[2][9] >= 0
             /\ out[2][10] = 6

\* the dialect name each supported algorithm is passed under
DialectHashName(how) ==
    CASE how = "md5" -> "md5"
      [] how = "sha1" -> "sha1"
      [] how = "sha256" -> "sha2_256"
      [] how = "sha512" -> "sha2_512"

\* C8: HashBytes and HexDigest pass the same dialect name to hashbytes (md5 and
\* sha1 unchanged, sha256 as sha2_256, sha512 as sha2_512), both fail for any
\* other algorithm, and HexDigest is lower(convert(VARCHAR(MAX), h, 2)) around
\* exactly the h that HashBytes emits for the same algorithm and argument.
HashNamesAndHexDigest ==
    Lowered({"HashBytes", "HexDigest"}) =>
        LET arg == translate(within_where, op.arg)
            supported == op.how \in {"md5", "sha1", "sha256", "sha512"}
            hashed == _hashbytes(within_where, [op EXCEPT !.kind = "HashBytes"])
        IN  /\ IsRaise(out) <=> ~supported
            /\ ~supported => out = Raise("NotImplementedError")
            /\ (supported /\ op.kind = "HashBytes") =>
                   out = <<"hashbytes", DialectHashName(op.how), arg>>
            /\ (supported /\ op.kind = "HexDigest") =>
                   /\ out = <<"lower", <<"convert", <<"literal_column", "VARCHAR(MAX)">>,
                                         hashed, <<"literal", PyInt(2)>>>>>>
                   /\ hashed = <<"hashbytes", DialectHashName(op.how), arg>>

HashNamesAndHexDigestWitness ==
    /\ Lowered({"HexDigest"})
    /\ op.how = "sha256"
    /\ out[1] = "lower"
    /\ out[2][3][2] = "sha2_256"

\* C9: building the registry fails when the override table has a kind that no
\* default table has (here the window-function table counts as a default table),
\* so a built registry has only kinds of the default tables.
RegistryFailsFast ==
    pc = "built" =>
        LET defaults == DOMAIN sqlalchemy_operation_registry
                            \cup DOMAIN sqlalchemy_window_functions_registry
        IN  /\ DOMAIN overrides \subseteq defaults
            /\ DOMAIN operation_registry \subseteq defaults

\* s.find(sub, start): the zero-based index of the first occurrence of sub that
\* begins at or after the zero-based start, -1 without one
Find(s, sub, start) ==
    LET hits == {i \in start..(Len(s) - Len(sub)) : SubSeq(s, i + 1, i + Len(sub)) = sub}
    IN  IF hits = {} THEN -1 ELSE CHOOSE i \in hits : \A j \in hits : i <= j

\* C10: the lowering of StringFind evaluates to the zero-based index of the first
\* occurrence of the substring beginning at or after the zero-based start, and
\* to -1 without one; with no start, to the first occurrence in the whole string.
StringFindIsZeroBased ==
    Lowered({"StringFind"}) =>
        /\ ~IsRaise(out)
        /\ EvalInt(out) =
               Find(op.arg.value.v, op.substr.value.v,
                    IF op.start.kind = "None" THEN 0 ELSE op.start.value.v)

=============================================================================
